---- MODULE Spec2Model ----
(***************************************************************************)
(* umi_rx: copy a BAM stream, appending to every record an RX:Z field that  *)
(* holds the UMI found after the last ':' of the read name.                 *)
(* The model follows main() of src/src/umi_rx.c statement by statement.    *)
(* The htslib calls are modelled by their documented contract: every call  *)
(* that can fail has a failing outcome, sam_read1 returns >= 0 on success, *)
(* -1 at end of stream and < -1 on error, and bam_aux_append grows the     *)
(* record buffer with realloc before it copies the payload.                *)
(***************************************************************************)
EXTENDS Integers, Sequences, FiniteSets, TLC

\* ---------------------------------------------------------------- bounds
MaxRecs == 2

\* ------------------------------------------------------ program constants
ExpectedUmiLen == 7
UsageArgc == 3
ExitFailure == 1
ExitSegv == 128 + 11

\* ------------------------------------------------------------------ bytes
NUL == "NUL"
Junk == "?"
RXTag == <<"R", "X">>
TypeZ == "Z"

\* Values of a pointer loaded from outside the target_name table.
WildPtr == "<wild>"
JunkPtr == "<junk>"

\* ------------------------------------------------------- sample inputs
Names ==
    { <<"a", "c">>,
      <<"a", ":">>,
      <<":", "a", ":", "c">>,
      <<"a", ":", "a", "c", "g", "t", "g", "a">> }

Headers == { <<"chr1">> }

BodySample == <<"q">>

AuxSamples == { <<>>, <<"N", "M", "C", "1">> }

\* Mapped records (a reference of the header, with or without auxiliary
\* fields) and unmapped ones (no reference: tid = -1, pos = -1).
Shapes(h) ==
    { [tid |-> t, pos |-> 4, aux |-> a] : t \in 0..(Len(h) - 1), a \in AuxSamples }
    \cup { [tid |-> -1, pos |-> -1, aux |-> <<>>] }

Records(h) ==
    { [qname |-> n, tid |-> c.tid, pos |-> c.pos, body |-> BodySample, aux |-> c.aux] :
        n \in Names, c \in Shapes(h) }

RECURSIVE SeqsUpTo(_, _)
SeqsUpTo(S, n) ==
    IF n = 0 THEN { <<>> }
    ELSE LET shorter == SeqsUpTo(S, n - 1)
         IN  shorter \cup { Append(s, x) : s \in { t \in shorter : Len(t) = n - 1 }, x \in S }

Formats == { "bam", "sam" }

Files ==
    UNION { { [fmt |-> f, hdr |-> h, recs |-> rs] : f \in Formats, rs \in SeqsUpTo(Records(h), MaxRecs) } :
            h \in Headers }

\* ------------------------------------------------------- C string helpers
Max(S) == CHOOSE x \in S : \A y \in S : y <= x

Min(S) == CHOOSE x \in S : \A y \in S : x <= y

\* strlen(buf + off - 1): bytes before the first NUL at or after index off.
StrLen(buf, off) == Min({ i \in off..Len(buf) : buf[i] = NUL }) - off

\* Variant: strchr, the first c in the C string.
StrChr(buf, off, c) ==
    LET hits == { i \in off..(off + StrLen(buf, off) - 1) : buf[i] = c }
    IN  IF hits = {} THEN 0 ELSE Min(hits)

\* strrchr(buf + off - 1, c): index of the last c in the C string, 0 for NULL.
StrRChr(buf, off, c) ==
    LET hits == { i \in off..(off + StrLen(buf, off) - 1) : buf[i] = c }
    IN  IF hits = {} THEN 0 ELSE Max(hits)

\* kroundup32: the least power of two that is >= n.
RECURSIVE RoundUpFrom(_, _)
RoundUpFrom(p, n) == IF p >= n THEN p ELSE RoundUpFrom(2 * p, n)

KRoundUp32(n) == RoundUpFrom(1, n)

\* --------------------------------------------------- record encoding
\* bam1_t data layout: qname NUL | cigar/seq/qual | aux.
Encode(r) ==
    [ tid |-> r.tid, pos |-> r.pos,
      l_qname |-> Len(r.qname) + 1, l_body |-> Len(r.body),
      data |-> r.qname \o <<NUL>> \o r.body \o r.aux ]

Decode(b) ==
    [ qname |-> SubSeq(b.data, 1, b.l_qname - 1),
      tid |-> b.tid, pos |-> b.pos,
      body |-> SubSeq(b.data, b.l_qname + 1, b.l_qname + b.l_body),
      aux |-> SubSeq(b.data, b.l_qname + b.l_body + 1, Len(b.data)) ]

NoAln == [ tid |-> 0, pos |-> 0, l_qname |-> 0, l_body |-> 0, data |-> <<>> ]

NoLocals == [ read_name |-> 0, pos |-> 0, chr |-> "", umi |-> 0, umilen |-> 0 ]

\* ------------------------------------------------------------------ state
VARIABLES
    argc,       \* argument count of the invocation
    pc,         \* position in main()
    status,     \* exit status, -1 while running
    pass,       \* 1: the run on the original input, 2: the run on its own output
    orig,       \* the records of the original input (pass 1)
    inFile,     \* content of the input container
    in_pos,     \* number of records consumed from the input
    handles,    \* [in, out]: "none" | "open" | "closed" | "closefailed"
    calls,      \* hts_open / hts_close / destroy calls made, in order
    header,     \* sam_hdr_t *header: [null, target_name]
    mem,        \* [aln, hdr]: "none" | "live" | "freed"
    aln,        \* bam1_t *aln: the reusable record buffer
    m_data,     \* capacity of aln->data
    read_num,   \* long read_num
    lastRet,    \* value of the last sam_read1 call
    locals,     \* read_name, pos, chr, umi, umilen of the loop body
    stale,      \* aln->data moved since read_name and umi were taken
    outHdr,     \* headers written to the output container
    outRecs,    \* records written to the output container
    diag,       \* lines written to stderr
    reported,   \* count printed by the "Finished" line, -1 before
    appended    \* bam_aux_append calls: the ordinal of the record each was made on

vars ==
    << argc, pc, status, pass, orig, inFile, in_pos, handles, calls, header, mem, aln,
       m_data, read_num, lastRet, locals, stale, outHdr, outRecs, diag, reported,
       appended >>

NullHeader == [ null |-> TRUE, target_name |-> <<>> ]

\* A line on stderr that names no record, and one that names a record.
Msg(kind) == [ kind |-> kind, num |-> -1, chr |-> "", pos |-> -1, name |-> <<>> ]

RecMsg(kind, l, name) ==
    [ kind |-> kind, num |-> read_num, chr |-> l.chr, pos |-> l.pos, name |-> name ]

Init ==
    /\ argc \in (UsageArgc - 1)..(UsageArgc + 1)
    /\ pc = "start"
    /\ status = -1
    /\ pass = 1
    /\ inFile \in Files
    /\ orig = inFile.recs
    /\ in_pos = 0
    /\ handles = [ in |-> "none", out |-> "none" ]
    /\ calls = <<>>
    /\ header = NullHeader
    /\ mem = [ aln |-> "none", hdr |-> "none" ]
    /\ aln = NoAln
    /\ m_data = 0
    /\ read_num = 0
    /\ lastRet = 0
    /\ locals = NoLocals
    /\ stale = FALSE
    /\ outHdr = <<>>
    /\ outRecs = <<>>
    /\ diag = <<>>
    /\ reported = -1
    /\ appended = <<>>

\* exit(code) after printing msg: no handle is closed, nothing is freed.
Exit(code, msg) ==
    /\ pc' = "done"
    /\ status' = code
    /\ diag' = Append(diag, msg)

\* The process dies on a signal while dereferencing an invalid pointer.
Crash ==
    /\ pc' = "done"
    /\ status' = ExitSegv
    /\ UNCHANGED diag

\* The C string at buf[off..], without its NUL.
CStr(buf, off) == SubSeq(buf, off, off + StrLen(buf, off) - 1)

\* What a read through a pointer into aln->data yields: the bytes, or, when the
\* buffer has been moved by realloc since the pointer was taken, freed memory.
ReadView(isStale, bytes) ==
    IF isStale THEN { bytes, [ i \in 1..Len(bytes) |-> Junk ] } ELSE { bytes }

\* ---------------------------------------------------------------- main()
\* Variant: only too few arguments are rejected.
UsageAtLeast ==
    /\ pc = "start"
    /\ IF argc < UsageArgc
       THEN Exit(ExitFailure, Msg("usage"))
       ELSE pc' = "open_in" /\ UNCHANGED << status, diag >>
    /\ UNCHANGED << argc, appended, pass, orig, inFile, in_pos, handles, calls, header, mem, aln,
                    m_data, read_num, lastRet, locals, stale, outHdr, outRecs, reported >>

\* lines 8-11
Usage ==
    /\ pc = "start"
    /\ IF argc # UsageArgc
       THEN Exit(ExitFailure, Msg("usage"))
       ELSE pc' = "open_in" /\ UNCHANGED << status, diag >>
    /\ UNCHANGED << argc, appended, pass, orig, inFile, in_pos, handles, calls, header, mem, aln,
                    m_data, read_num, lastRet, locals, stale, outHdr, outRecs, reported >>

\* lines 18-22
OpenIn ==
    /\ pc = "open_in"
    /\ calls' = Append(calls, "open_in")
    /\ \/ /\ handles' = [ handles EXCEPT !.in = "open" ]
          /\ pc' = "open_out"
          /\ UNCHANGED << status, diag >>
       \/ /\ Exit(ExitFailure, Msg("open_in"))
          /\ UNCHANGED handles
    /\ UNCHANGED << argc, appended, pass, orig, inFile, in_pos, header, mem, aln, m_data, read_num,
                    lastRet, locals, stale, outHdr, outRecs, reported >>

\* lines 25-29
OpenOut ==
    /\ pc = "open_out"
    /\ calls' = Append(calls, "open_out")
    /\ \/ /\ handles' = [ handles EXCEPT !.out = "open" ]
          /\ pc' = "hdr_read"
          /\ UNCHANGED << status, diag >>
       \/ /\ Exit(ExitFailure, Msg("open_out"))
          /\ UNCHANGED handles
    /\ UNCHANGED << argc, appended, pass, orig, inFile, in_pos, header, mem, aln, m_data, read_num,
                    lastRet, locals, stale, outHdr, outRecs, reported >>

\* lines 32-36
ReadHeader ==
    /\ pc = "hdr_read"
    /\ \/ /\ header' = [ null |-> FALSE, target_name |-> inFile.hdr ]
          /\ mem' = [ mem EXCEPT !.hdr = "live" ]
          /\ pc' = "hdr_write"
          /\ UNCHANGED << status, diag >>
       \/ /\ Exit(ExitFailure, Msg("hdr_read"))
          /\ UNCHANGED << header, mem >>
    /\ UNCHANGED << argc, appended, pass, orig, inFile, in_pos, handles, calls, aln, m_data, read_num,
                    lastRet, locals, stale, outHdr, outRecs, reported >>

\* Variant: a failed header write is reported but the run goes on.
WriteHeaderNoExit ==
    /\ pc = "hdr_write"
    /\ \/ /\ outHdr' = Append(outHdr, header.target_name)
          /\ UNCHANGED diag
       \/ /\ diag' = Append(diag, Msg("hdr_write"))
          /\ UNCHANGED outHdr
    /\ pc' = "init_aln"
    /\ UNCHANGED << argc, appended, status, pass, orig, inFile, in_pos, handles, calls, header, mem, aln,
                    m_data, read_num, lastRet, locals, stale, outRecs, reported >>

\* lines 39-42
WriteHeader ==
    /\ pc = "hdr_write"
    /\ \/ /\ outHdr' = Append(outHdr, header.target_name)
          /\ pc' = "init_aln"
          /\ UNCHANGED << status, diag >>
       \/ /\ Exit(ExitFailure, Msg("hdr_write"))
          /\ UNCHANGED outHdr
    /\ UNCHANGED << argc, appended, pass, orig, inFile, in_pos, handles, calls, header, mem, aln,
                    m_data, read_num, lastRet, locals, stale, outRecs, reported >>

\* Variant: the read counter starts at 1.
InitAlnFromOne ==
    /\ pc = "init_aln"
    /\ mem' = [ mem EXCEPT !.aln = "live" ]
    /\ aln' = NoAln
    /\ m_data' = 0
    /\ read_num' = 1
    /\ pc' = "read"
    /\ UNCHANGED << argc, appended, status, pass, orig, inFile, in_pos, handles, calls, header,
                    lastRet, locals, stale, outHdr, outRecs, diag, reported >>

\* lines 44-46 (bam_init1 and the loop initialisation)
InitAln ==
    /\ pc = "init_aln"
    /\ mem' = [ mem EXCEPT !.aln = "live" ]
    /\ aln' = NoAln
    /\ m_data' = 0
    /\ read_num' = 0
    /\ pc' = "read"
    /\ UNCHANGED << argc, appended, status, pass, orig, inFile, in_pos, handles, calls, header,
                    lastRet, locals, stale, outHdr, outRecs, diag, reported >>

\* The value sam_read1 returns for a record it has read: the byte count for
\* BAM, 0 for the text format.
ReadOkRet(f, b) == IF f = "bam" THEN Len(b.data) ELSE 0

\* Outcomes of sam_read1(in, header, aln): << return value, record or none >>.
SamRead1 ==
    LET more == in_pos < Len(inFile.recs)
        b == Encode(inFile.recs[in_pos + 1])
    IN  (IF more THEN { << ReadOkRet(inFile.fmt, b), <<b>> >> } ELSE { << -1, <<>> >> })
        \cup { << -2, <<>> >> }

\* The loop condition of line 46.
LoopContinues(ret) == ret > 0

\* Variant: a read that reports an error is tried again.
ReadRecordRetry ==
    /\ pc = "read"
    /\ \E o \in SamRead1 :
          /\ lastRet' = o[1]
          /\ IF o[2] # <<>>
             THEN /\ aln' = o[2][1]
                  /\ in_pos' = in_pos + 1
                  /\ m_data' = IF Len(o[2][1].data) > m_data
                               THEN KRoundUp32(Len(o[2][1].data)) ELSE m_data
             ELSE UNCHANGED << aln, in_pos, m_data >>
          /\ pc' = IF LoopContinues(o[1]) THEN "extract"
                   ELSE IF o[1] < -1 THEN "read" ELSE "finish"
    /\ UNCHANGED << argc, appended, status, pass, orig, inFile, handles, calls, header, mem,
                    read_num, locals, stale, outHdr, outRecs, diag, reported >>

\* line 46: the read and the loop test
ReadRecord ==
    /\ pc = "read"
    /\ \E o \in SamRead1 :
          /\ lastRet' = o[1]
          /\ IF o[2] # <<>>
             THEN /\ aln' = o[2][1]
                  /\ in_pos' = in_pos + 1
                  /\ m_data' = IF Len(o[2][1].data) > m_data
                               THEN KRoundUp32(Len(o[2][1].data)) ELSE m_data
             ELSE UNCHANGED << aln, in_pos, m_data >>
          /\ pc' = IF LoopContinues(o[1]) THEN "extract" ELSE "finish"
    /\ UNCHANGED << argc, appended, status, pass, orig, inFile, handles, calls, header, mem,
                    read_num, locals, stale, outHdr, outRecs, diag, reported >>

\* line 49: header->target_name[aln->core.tid]; outside the table the load
\* yields an arbitrary pointer.
TargetName(tid) ==
    IF tid \in 0..(Len(header.target_name) - 1)
    THEN { header.target_name[tid + 1] }
    ELSE { WildPtr, JunkPtr }

\* lines 47-57
Extract ==
    /\ pc = "extract"
    /\ \E c \in TargetName(aln.tid) :
          LET colon == StrRChr(aln.data, 1, ":")
              l == [ read_name |-> 1, pos |-> aln.pos + 1, chr |-> c,
                     umi |-> IF colon = 0 THEN 0 ELSE colon + 1, umilen |-> 0 ]
          IN  /\ locals' = l
              /\ IF colon = 0
                 THEN IF c = WildPtr THEN Crash
                      ELSE Exit(ExitFailure, RecMsg("no_umi", l, CStr(aln.data, 1)))
                 ELSE pc' = "check_len" /\ UNCHANGED << status, diag >>
    /\ stale' = FALSE
    /\ UNCHANGED << argc, appended, pass, orig, inFile, in_pos, handles, calls, header, mem, aln,
                    m_data, read_num, lastRet, outHdr, outRecs, reported >>

\* Variant: a length mismatch ends the run.
CheckLenFatal ==
    /\ pc = "check_len"
    /\ LET umilen == StrLen(aln.data, locals.umi) + 1
           l == [ locals EXCEPT !.umilen = umilen ]
       IN  /\ locals' = l
           /\ IF umilen # ExpectedUmiLen
              THEN IF locals.chr = WildPtr THEN Crash
                   ELSE Exit(ExitFailure, RecMsg("warn_len", l, CStr(aln.data, 1)))
              ELSE pc' = "progress" /\ UNCHANGED << status, diag >>
    /\ UNCHANGED << argc, appended, pass, orig, inFile, in_pos, handles, calls, header, mem, aln,
                    m_data, read_num, lastRet, stale, outHdr, outRecs, reported >>

\* lines 59-63
CheckLen ==
    /\ pc = "check_len"
    /\ LET umilen == StrLen(aln.data, locals.umi) + 1
           l == [ locals EXCEPT !.umilen = umilen ]
       IN  /\ locals' = l
           /\ IF umilen # ExpectedUmiLen
              THEN IF locals.chr = WildPtr THEN Crash
                   ELSE /\ diag' = Append(diag, RecMsg("warn_len", l, CStr(aln.data, 1)))
                        /\ pc' = "progress"
                        /\ UNCHANGED status
              ELSE pc' = "progress" /\ UNCHANGED << status, diag >>
    /\ UNCHANGED << argc, appended, pass, orig, inFile, in_pos, handles, calls, header, mem, aln,
                    m_data, read_num, lastRet, stale, outHdr, outRecs, reported >>

\* lines 65-71: the progress lines on stdout print chr
Progress ==
    /\ pc = "progress"
    /\ IF locals.chr = WildPtr THEN Crash
       ELSE pc' = "append" /\ UNCHANGED << status, diag >>
    /\ UNCHANGED << argc, appended, pass, orig, inFile, in_pos, handles, calls, header, mem, aln,
                    m_data, read_num, lastRet, locals, stale, outHdr, outRecs, reported >>

\* The bytes bam_aux_append adds: tag, type, then len bytes copied from data.
AuxField(tag, type, payload) == tag \o <<type>> \o payload

\* Variant: a field whose tag is already the last field's tag replaces it.
BamAuxUpdate(b, cap, tag, type, len, src) ==
    LET last == Len(b.data) - (3 + len)
        bytes == SubSeq(b.data, src, src + len - 1)
        has == /\ last >= b.l_qname + b.l_body
               /\ SubSeq(b.data, last + 1, last + 3) = tag \o <<type>>
        base == IF has THEN SubSeq(b.data, 1, last) ELSE b.data
        new_len == Len(base) + 3 + len
    IN  { [ ret |-> 0, data |-> base \o AuxField(tag, type, bytes),
            m_data |-> IF new_len > cap THEN KRoundUp32(new_len) ELSE cap,
            moved |-> FALSE ] }

\* Outcomes of bam_aux_append(aln, "RX", 'Z', umilen, umi):
\* [ret, data, m_data, moved]. The buffer is grown by realloc when the new
\* length exceeds its capacity; realloc fails, grows in place or moves the
\* data, and the payload is copied from the caller's pointer afterwards.
BamAuxAppend(b, cap, tag, type, len, src) ==
    LET new_len == Len(b.data) + 3 + len
        bytes == SubSeq(b.data, src, src + len - 1)
        grown(moved) ==
            { [ ret |-> 0, data |-> b.data \o AuxField(tag, type, p),
                m_data |-> IF new_len > cap THEN KRoundUp32(new_len) ELSE cap,
                moved |-> moved ] : p \in ReadView(moved, bytes) }
    IN  IF new_len <= cap
        THEN grown(FALSE)
        ELSE grown(FALSE) \cup grown(TRUE)
             \cup { [ ret |-> -1, data |-> b.data, m_data |-> cap, moved |-> FALSE ] }

\* Variant: a failed append is tried again on the same record.
AppendRXRetry ==
    /\ pc = "append"
    /\ appended' = Append(appended, in_pos)
    /\ \E o \in BamAuxAppend(aln, m_data, RXTag, TypeZ, locals.umilen, locals.umi) :
          /\ aln' = [ aln EXCEPT !.data = o.data ]
          /\ m_data' = o.m_data
          /\ stale' = o.moved
          /\ pc' = IF o.ret < 0 THEN "append" ELSE "write"
          /\ UNCHANGED << status, diag >>
    /\ UNCHANGED << argc, pass, orig, inFile, in_pos, handles, calls, header, mem,
                    read_num, lastRet, locals, outHdr, outRecs, reported >>

\* lines 70-75
AppendRX ==
    /\ pc = "append"
    /\ appended' = Append(appended, in_pos)
    /\ \E o \in BamAuxAppend(aln, m_data, RXTag, TypeZ, locals.umilen, locals.umi) :
          /\ aln' = [ aln EXCEPT !.data = o.data ]
          /\ m_data' = o.m_data
          /\ stale' = o.moved
          /\ IF o.ret < 0
             THEN Exit(ExitFailure, Msg("append"))
             ELSE pc' = "write" /\ UNCHANGED << status, diag >>
    /\ UNCHANGED << argc, pass, orig, inFile, in_pos, handles, calls, header, mem,
                    read_num, lastRet, locals, outHdr, outRecs, reported >>

\* Variant: the header is written again in front of every record.
WriteRecordWithHeader ==
    /\ pc = "write"
    /\ \/ /\ outRecs' = Append(outRecs, Decode(aln))
          /\ outHdr' = Append(outHdr, header.target_name)
          /\ read_num' = read_num + 1
          /\ pc' = "read"
          /\ UNCHANGED << status, diag >>
       \/ /\ \E n \in ReadView(stale, CStr(aln.data, 1)) :
                Exit(ExitFailure, RecMsg("write", locals, n))
          /\ UNCHANGED << outRecs, outHdr, read_num >>
    /\ UNCHANGED << argc, appended, pass, orig, inFile, in_pos, handles, calls, header, mem, aln,
                    m_data, lastRet, locals, stale, reported >>

\* lines 77-82 and the read_num++ of line 46
WriteRecord ==
    /\ pc = "write"
    /\ \/ /\ outRecs' = Append(outRecs, Decode(aln))
          /\ read_num' = read_num + 1
          /\ pc' = "read"
          /\ UNCHANGED << status, diag >>
       \/ /\ \E n \in ReadView(stale, CStr(aln.data, 1)) :
                Exit(ExitFailure, RecMsg("write", locals, n))
          /\ UNCHANGED << outRecs, read_num >>
    /\ UNCHANGED << argc, appended, pass, orig, inFile, in_pos, handles, calls, header, mem, aln,
                    m_data, lastRet, locals, stale, outHdr, reported >>

\* line 84
Finished ==
    /\ pc = "finish"
    /\ reported' = read_num
    /\ pc' = "close_out"
    /\ UNCHANGED << argc, appended, status, pass, orig, inFile, in_pos, handles, calls, header, mem,
                    aln, m_data, read_num, lastRet, locals, stale, outHdr, outRecs, diag >>

\* lines 87-90
CloseOut ==
    /\ pc = "close_out"
    /\ calls' = Append(calls, "close_out")
    /\ \/ /\ handles' = [ handles EXCEPT !.out = "closed" ]
          /\ pc' = "close_in"
          /\ UNCHANGED << status, diag >>
       \/ /\ handles' = [ handles EXCEPT !.out = "closefailed" ]
          /\ Exit(ExitFailure, Msg("close_out"))
    /\ UNCHANGED << argc, appended, pass, orig, inFile, in_pos, header, mem, aln, m_data, read_num,
                    lastRet, locals, stale, outHdr, outRecs, reported >>

\* Variant: the result of closing the input is not looked at.
CloseInUnchecked ==
    /\ pc = "close_in"
    /\ calls' = Append(calls, "close_in")
    /\ \E r \in { "closed", "closefailed" } : handles' = [ handles EXCEPT !.in = r ]
    /\ pc' = "free"
    /\ UNCHANGED << status, diag >>
    /\ UNCHANGED << argc, appended, pass, orig, inFile, in_pos, header, mem, aln, m_data, read_num,
                    lastRet, locals, stale, outHdr, outRecs, reported >>

\* lines 92-95
CloseIn ==
    /\ pc = "close_in"
    /\ calls' = Append(calls, "close_in")
    /\ \/ /\ handles' = [ handles EXCEPT !.in = "closed" ]
          /\ pc' = "free"
          /\ UNCHANGED << status, diag >>
       \/ /\ handles' = [ handles EXCEPT !.in = "closefailed" ]
          /\ Exit(ExitFailure, Msg("close_in"))
    /\ UNCHANGED << argc, appended, pass, orig, inFile, in_pos, header, mem, aln, m_data, read_num,
                    lastRet, locals, stale, outHdr, outRecs, reported >>

\* lines 98-101
FreeAndReturn ==
    /\ pc = "free"
    /\ mem' = [ aln |-> "freed", hdr |-> "freed" ]
    /\ status' = 0
    /\ pc' = "done"
    /\ UNCHANGED << argc, appended, pass, orig, inFile, in_pos, handles, calls, header, aln, m_data,
                    read_num, lastRet, locals, stale, outHdr, outRecs, diag, reported >>

\* The program is run again, on the container its first run produced.
Rerun ==
    /\ pc = "done"
    /\ status = 0
    /\ pass = 1
    /\ pass' = 2
    /\ inFile' = [ fmt |-> "bam", hdr |-> outHdr[1], recs |-> outRecs ]
    /\ pc' = "start"
    /\ status' = -1
    /\ in_pos' = 0
    /\ handles' = [ in |-> "none", out |-> "none" ]
    /\ calls' = <<>>
    /\ header' = NullHeader
    /\ mem' = [ aln |-> "none", hdr |-> "none" ]
    /\ aln' = NoAln
    /\ m_data' = 0
    /\ read_num' = 0
    /\ lastRet' = 0
    /\ locals' = NoLocals
    /\ stale' = FALSE
    /\ outHdr' = <<>>
    /\ outRecs' = <<>>
    /\ diag' = <<>>
    /\ reported' = -1
    /\ appended' = <<>>
    /\ UNCHANGED << argc, orig >>

Next ==
    \/ Usage
    \/ OpenIn
    \/ OpenOut
    \/ ReadHeader
    \/ WriteHeader
    \/ InitAln
    \/ ReadRecord
    \/ Extract
    \/ CheckLen
    \/ Progress
    \/ AppendRX
    \/ WriteRecord
    \/ Finished
    \/ CloseOut
    \/ CloseIn
    \/ FreeAndReturn
    \/ Rerun

Spec == Init /\ [][Next]_vars

\* ================================================================ claims
\* The specification's vocabulary: the UMI token of a read name and the record
\* the transformation is to produce.
HasColon(n) == \E i \in 1..Len(n) : n[i] = ":"

Token(n) == SubSeq(n, Max({ i \in 1..Len(n) : n[i] = ":" }) + 1, Len(n))

RXField(n) == <<"R", "X", "Z">> \o Token(n) \o <<NUL>>

Transform(r) == [ r EXCEPT !.aux = r.aux \o RXField(r.qname) ]

FailureKinds ==
    { "open_in", "open_out", "hdr_read", "hdr_write", "append", "write", "close_out", "close_in" }

\* An adapter call has reported a failure in this run.
AdapterFailed ==
    \/ lastRet < -1
    \/ \E i \in 1..Len(diag) : diag[i].kind \in FailureKinds

NoColonAt == { i \in 1..Len(inFile.recs) : ~HasColon(inFile.recs[i].qname) }

IsClose(c) == c \in { "close_out", "close_in" }

CloseCalls == SelectSeq(calls, IsClose)

Closing == pc \in { "finish", "close_out", "close_in", "free" }

\* C1: every record written for an input record whose read name has a ':'
\* has the input's auxiliary region followed by exactly one field RX:Z whose
\* payload is the text after the last ':' and a NUL.
C1_AuxIsInputPlusRX ==
    \A i \in 1..Len(outRecs) :
        HasColon(inFile.recs[i].qname)
            => outRecs[i].aux = inFile.recs[i].aux \o RXField(inFile.recs[i].qname)

\* C2: the records written so far are always the transforms of a prefix of the
\* input, and a run over an input whose names all have a ':' that met no
\* adapter failure ends with one output record per input record.
C2_CountAndOrder ==
    /\ Len(outRecs) <= Len(inFile.recs)
    /\ \A i \in 1..Len(outRecs) : outRecs[i] = Transform(inFile.recs[i])
    /\ (pc = "done" /\ argc = UsageArgc /\ NoColonAt = {} /\ ~AdapterFailed)
           => Len(outRecs) = Len(inFile.recs)

\* C3: when the k-th input record is the first without ':', the run ends with
\* a nonzero status at that record, the output holding exactly the transforms
\* of the k-1 records before it and no later record having been read.
C3_AbortAtFirstNoColon ==
    (pc = "done" /\ argc = UsageArgc /\ NoColonAt # {} /\ ~AdapterFailed)
        => LET k == Min(NoColonAt)
           IN  /\ status # 0
               /\ in_pos = k
               /\ outRecs = [ i \in 1..(k - 1) |-> Transform(inFile.recs[i]) ]

\* C4: the header is written once, before any record, it is the header of the
\* input, and from the first record on it is never written again.
C4_HeaderOnceFirst ==
    /\ [](/\ Len(outHdr) <= 1
          /\ (outRecs # <<>> => Len(outHdr) = 1)
          /\ (outHdr # <<>> => outHdr[1] = inFile.hdr)
          /\ (status = 0 => Len(outHdr) = 1))
    /\ [][(pass' = pass /\ (outRecs # <<>> \/ outRecs' # outRecs)) => outHdr' = outHdr]_vars

C4_Witness == pc = "done" /\ Len(outRecs) = MaxRecs /\ Len(outHdr) = 1

\* C5: the read loop is left for the close phase, and the run ends with
\* status 0, only when sam_read1 reported end of stream (-1): neither an
\* error nor a record that was read ends the loop.
C5_EndOfStreamOnly ==
    (Closing \/ status = 0) => lastRet = -1

\* C6: the length check changes nothing but the diagnostic stream: its step
\* leaves the record, the output and the counters alone and goes on to the
\* append, and where it ends the run (by printing through an invalid chr) the
\* next step does the same with the same status; so records with a length
\* mismatch are written with their RX field and the run completes.
C6_WarningOnly ==
    /\ [][pc = "check_len" =>
            /\ UNCHANGED << argc, appended, pass, orig, inFile, in_pos, handles, calls, header, mem,
                            aln, m_data, read_num, lastRet, stale, outHdr, outRecs, reported >>
            /\ locals' = [ locals EXCEPT !.umilen = StrLen(aln.data, locals.umi) + 1 ]
            /\ \/ pc' = "progress" /\ status' = status
               \/ pc' = "done" /\ status' = ExitSegv /\ locals.chr = WildPtr /\ diag' = diag]_vars
    /\ [][(pc = "progress" /\ locals.chr = WildPtr) =>
            (pc' = "done" /\ status' = ExitSegv /\ diag' = diag)]_vars

C6_Witness ==
    /\ pc = "done" /\ status = 0 /\ pass = 1
    /\ Len(outRecs) = MaxRecs
    /\ \A i \in 1..Len(outRecs) :
          /\ Len(Token(outRecs[i].qname)) + 1 # ExpectedUmiLen
          /\ outRecs[i].aux = inFile.recs[i].aux \o RXField(inFile.recs[i].qname)
    /\ \E i \in 1..Len(diag) : diag[i].kind = "warn_len"

\* C7: the second run, over the output of the first, leaves the first RX field
\* in place and appends a second field with the same tag: each record it writes
\* has the original auxiliary region followed by two RX:Z fields.
C7_SecondRXAppended ==
    pass = 2 =>
        \A i \in 1..Len(outRecs) :
            LET a0 == orig[i].aux
                n == Len(Token(orig[i].qname)) + 1
                a == outRecs[i].aux
                f1 == Len(a0)
                f2 == Len(a0) + 3 + n
            IN  /\ Len(a) = Len(a0) + 2 * (3 + n)
                /\ SubSeq(a, 1, f2) = inFile.recs[i].aux
                /\ SubSeq(a, 1, f1) = a0
                /\ SubSeq(a, f1 + 1, f1 + 3) = <<"R", "X", "Z">>
                /\ SubSeq(a, f2 + 1, f2 + 3) = <<"R", "X", "Z">>

C7_Witness == pass = 2 /\ pc = "done" /\ status = 0 /\ Len(outRecs) = MaxRecs

\* C8: the handles are closed only after the read loop, the output before the
\* input; a failing close ends the run with a nonzero status, and status 0 is
\* reached only after both closes succeeded.
C8_CloseOrder ==
    /\ CloseCalls \in { <<>>, <<"close_out">>, <<"close_out", "close_in">> }
    /\ CloseCalls # <<>> => reported # -1
    /\ Len(CloseCalls) = 2 => handles.out = "closed"
    /\ pc = "free" => (handles.out = "closed" /\ handles.in = "closed")
    /\ status = 0 => (handles.out = "closed" /\ handles.in = "closed")
    /\ (pc = "done" /\ "closefailed" \in { handles.in, handles.out }) => status = ExitFailure

C8_Witness ==
    /\ pc = "done" /\ status = ExitFailure
    /\ handles = [ in |-> "closefailed", out |-> "closed" ]
    /\ Len(outRecs) = MaxRecs /\ Len(outRecs) = Len(inFile.recs)

\* C9: whenever the run has ended, no handle is left open without a close
\* having been attempted, and the record buffer and the header are released.
C9_ReleasedOnExit ==
    pc = "done" =>
        /\ handles.in # "open"
        /\ handles.out # "open"
        /\ mem.aln # "live"
        /\ mem.hdr # "live"

\* C10: with an argument count other than three the run ends at once with
\* status 1 and no adapter call is made: nothing is opened, read or written.
C10_UsageTouchesNothing ==
    argc # UsageArgc =>
        /\ pc \in { "start", "done" }
        /\ pc = "done" => status = ExitFailure
        /\ calls = <<>>
        /\ handles = [ in |-> "none", out |-> "none" ]
        /\ in_pos = 0
        /\ outHdr = <<>>
        /\ outRecs = <<>>

C10_Witness == pc = "done" /\ argc > UsageArgc /\ status = ExitFailure

\* C11: a run that ends with status 0 has reported a count equal to the
\* number of records of the input and to the number of records written; for
\* an input without records that is the header, no record and a count of 0.
C11_ReportedCount ==
    (pc = "done" /\ status = 0)
        => /\ reported = Len(inFile.recs)
           /\ reported = Len(outRecs)
           /\ Len(outHdr) = 1

HasDiag(kind) == \E i \in 1..Len(diag) : diag[i].kind = kind

\* C12: after a failed header read nothing has been written to the output,
\* after a failed header write no record has been read, placed in the record
\* buffer or written, and in both cases the run has ended with a nonzero status.
C12_HeaderFailuresStop ==
    /\ HasDiag("hdr_read") =>
          /\ pc = "done" /\ status # 0
          /\ header.null
          /\ outHdr = <<>> /\ outRecs = <<>>
          /\ in_pos = 0
    /\ HasDiag("hdr_write") =>
          /\ pc = "done" /\ status # 0
          /\ outHdr = <<>> /\ outRecs = <<>>
          /\ in_pos = 0 /\ aln = NoAln /\ mem.aln = "none"

C12_Witness ==
    /\ HasDiag("hdr_write") /\ pc = "done" /\ status = ExitFailure
    /\ Len(inFile.recs) = MaxRecs

\* C13: bam_aux_append is called once on each record that reaches it, in
\* input order; after a failed append the run has ended with a nonzero status,
\* the record is not in the output, and no later record has been read.
C13_OneAppendPerRecord ==
    /\ appended = [ i \in 1..Len(appended) |-> i ]
    /\ Len(appended) <= in_pos
    /\ Len(outRecs) <= Len(appended)
    /\ Len(appended) <= Len(outRecs) + 1
    /\ HasDiag("append") =>
          /\ pc = "done" /\ status # 0
          /\ Len(outRecs) = Len(appended) - 1
          /\ in_pos = Len(appended)

C13_Witness ==
    /\ HasDiag("append") /\ pc = "done" /\ status = ExitFailure
    /\ Len(appended) = MaxRecs /\ Len(outRecs) = MaxRecs - 1

\* C14: a successful append makes the auxiliary region longer by the token
\* length + 1 and the 3 bytes of tag and type, keeps the bytes it held, in
\* order, in front of the new field, and leaves the read name, the reference
\* index, the position and the alignment payload as they were.
C14_AppendFrame ==
    [][(pc = "append" /\ pc' = "write") =>
          LET old == Decode(aln)
              new == Decode(aln')
              n == Len(Token(old.qname)) + 1
          IN  /\ Len(new.aux) = Len(old.aux) + n + 3
              /\ SubSeq(new.aux, 1, Len(old.aux)) = old.aux
              /\ SubSeq(new.aux, Len(old.aux) + 1, Len(old.aux) + 3) = <<"R", "X", "Z">>
              /\ new.qname = old.qname
              /\ new.tid = old.tid
              /\ new.pos = old.pos
              /\ new.body = old.body]_vars

C14_Witness ==
    /\ pc = "write" /\ stale
    /\ Len(Decode(aln).aux) > locals.umilen + 3
    /\ Len(Token(Decode(aln).qname)) = 1

InLoop == pc \in { "read", "extract", "check_len", "progress", "append", "write" }

\* C15: inside the loop the read counter equals the number of records written
\* (it starts at 0 and grows by one per record written), and what is written
\* for a record depends on that input record alone: equal input records give
\* equal output records, whatever was processed before them.
C15_RecordAlone ==
    /\ InLoop => read_num = Len(outRecs)
    /\ \A i, j \in 1..Len(outRecs) :
          inFile.recs[i] = inFile.recs[j] => outRecs[i] = outRecs[j]

\* The four states of the run: 0 Init, 1 HeaderTransferred, 2 Streaming,
\* 3 Closed.
Phase ==
    CASE pc \in { "start", "open_in", "open_out", "hdr_read", "hdr_write" } -> 0
      [] pc = "init_aln" -> 1
      [] InLoop -> 2
      [] OTHER -> 3

\* A measure of the work left: the records not yet read and the statements
\* left in the current pass through the loop body.
Variant ==
    LET total == 6 * Len(inFile.recs)
        left == 6 * (Len(inFile.recs) - in_pos)
    IN  CASE pc = "start" -> total + 11
          [] pc = "open_in" -> total + 10
          [] pc = "open_out" -> total + 9
          [] pc = "hdr_read" -> total + 8
          [] pc = "hdr_write" -> total + 7
          [] pc = "init_aln" -> total + 6
          [] pc = "read" -> left + 5
          [] pc = "extract" -> left + 10
          [] pc = "check_len" -> left + 9
          [] pc = "progress" -> left + 8
          [] pc = "append" -> left + 7
          [] pc = "write" -> left + 6
          [] pc = "finish" -> 4
          [] pc = "close_out" -> 3
          [] pc = "close_in" -> 2
          [] pc = "free" -> 1
          [] OTHER -> 0

\* C16: a run moves only forward through Init, HeaderTransferred, Streaming
\* and Closed (or straight to Closed), every step uses up some of the finite
\* work left, so no operation is tried again and the run cannot go on for
\* ever; it never stops before the terminal state, and once there it does
\* nothing more.
C16_ForwardToTerminal ==
    /\ [](pc # "done" => (ENABLED Next /\ Variant > 0))
    /\ [][pass' = pass =>
            /\ Variant' < Variant
            /\ Phase' \in { Phase, Phase + 1, 3 }]_vars
    /\ [][pc = "done" => pass' # pass]_vars

C16_Witness == pc = "done" /\ pass = 1 /\ status = 0 /\ reported = MaxRecs /\ lastRet = -1

RecordKinds == { "no_umi", "warn_len", "write" }

\* The line a step adds to stderr, when it names a record.
NamesRecord(before, after) ==
    /\ Len(after) = Len(before) + 1
    /\ after[Len(after)].kind \in RecordKinds

\* C17 (as stated): every diagnostic about the k-th record of the input shows
\* the ordinal k and the record's stored position plus 1.
C17_OneBasedOrdinal ==
    [][NamesRecord(diag, diag') =>
          /\ diag'[Len(diag')].num = in_pos
          /\ diag'[Len(diag')].pos = inFile.recs[in_pos].pos + 1]_vars

\* C17 (amended): every diagnostic about the k-th record of the input shows
\* the ordinal k - 1, the counter starting at 0, and the record's stored
\* position plus 1.
C17_ZeroBasedOrdinal ==
    [][NamesRecord(diag, diag') =>
          /\ diag'[Len(diag')].num = in_pos - 1
          /\ diag'[Len(diag')].pos = inFile.recs[in_pos].pos + 1]_vars

C17_Witness ==
    /\ pc = "done" /\ in_pos = MaxRecs /\ diag # <<>>
    /\ diag[Len(diag)].kind = "write"
    /\ diag[Len(diag)].num = MaxRecs - 1
    /\ diag[Len(diag)].pos = 5

\* C18: the record data is never moved between the point where read_name and
\* umi are taken and the points where they are read: the payload copy inside
\* bam_aux_append and the write-failure message read live storage.
C18_ViewsLive == ~stale

\* C19: the reference index of every record processed is within the header's
\* name table when the name is looked up, so the lookup never yields a
\* pointer from outside the table.
C19_LookupInRange ==
    /\ locals.chr \notin { WildPtr, JunkPtr }
    /\ pc \in { "check_len", "progress", "append", "write" }
          => aln.tid \in 0..(Len(header.target_name) - 1)

====
